---- MODULE Spec2Model ----
(***************************************************************************)
(* kurumi-rs: the event dispatcher (framework/event_handler.rs), the       *)
(* command handler (framework/command_handler.rs) and the permission       *)
(* helpers (commands/command_trait.rs, commands/message/mod.rs).           *)
(*                                                                         *)
(* A Rust String is a sequence of one-character strings; a HashMap is a    *)
(* function whose DOMAIN is its key set.                                   *)
(***************************************************************************)
EXTENDS Integers, Sequences, FiniteSets, TLC

\* ------------------------------------------------------------------ bounds

\* Longest message content, in characters.
MaxLen == 4
\* Longest name get_command is called with, in characters.
MaxName == 2
\* Most register_command calls before the bot starts.
MaxRegs == 2
\* Dispatch calls in flight at once (serenity runs each gateway event's
\* EventHandler callback in a task of its own).
MaxCalls == 2

\* ----------------------------------------------------------------- strings

Whitespace == {" "}
ContentChars == {"!", " ", "a", "A", "x"}
NameChars == {"a", "A", "x", "X"}

\* char::to_lowercase on the characters of the model
LowerChar(ch) ==
  CASE ch = "A" -> "a"
    [] ch = "X" -> "x"
    [] OTHER -> ch

\* str::to_lowercase
to_lowercase(s) == [i \in 1..Len(s) |-> LowerChar(s[i])]

\* str::starts_with
starts_with(s, p) == Len(p) <= Len(s) /\ SubSeq(s, 1, Len(p)) = p

\* str::trim_start_matches: removes the pattern from the start repeatedly,
\* for as long as the rest still starts with it (an empty pattern removes
\* nothing).
RECURSIVE trim_start_matches(_, _)
trim_start_matches(s, p) ==
  IF p # <<>> /\ starts_with(s, p)
  THEN trim_start_matches(SubSeq(s, Len(p) + 1, Len(s)), p)
  ELSE s

\* str::split_whitespace, scanning s from position i with the word so far in
\* cur and the finished words in acc; an empty word is never emitted.
RECURSIVE SplitFrom(_, _, _, _)
SplitFrom(s, i, cur, acc) ==
  IF i > Len(s)
  THEN IF cur = <<>> THEN acc ELSE Append(acc, cur)
  ELSE IF s[i] \in Whitespace
       THEN SplitFrom(s, i + 1, <<>>, IF cur = <<>> THEN acc ELSE Append(acc, cur))
       ELSE SplitFrom(s, i + 1, Append(cur, s[i]), acc)

split_whitespace(s) == SplitFrom(s, 1, <<>>, <<>>)

\* All strings over an alphabet up to a length.
StringsUpTo(chars, n) == UNION {[1..k -> chars] : k \in 0..n}

\* DEFAULT_PREFIX
DEFAULT_PREFIX == <<"!">>

\* Prefixes a configuration may set (BotConfig.prefix).
Prefixes == {<<"!">>, <<"a", "!">>}

\* ------------------------------------------------------------ the commands

\* The Command implementations the bot may register.  Each has the name()
\* and aliases() of trait Command and, when it also implements CommandInfo,
\* its owner_only() and required_permissions().
CommandPool == {"PingCommand", "XCommand", "UpperCommand", "AdminCommand"}

\* Command::name
name(c) ==
  CASE c = "PingCommand" -> <<"a">>
    [] c = "XCommand" -> <<"x">>
    [] c = "UpperCommand" -> <<"A">>
    [] c = "AdminCommand" -> <<"a", "a">>

\* Command::aliases (the default is the empty list)
command_aliases(c) ==
  CASE c = "PingCommand" -> <<<<"x">>>>
    [] c = "XCommand" -> <<>>
    [] c = "UpperCommand" -> <<<<"X">>>>
    [] c = "AdminCommand" -> <<<<"x">>>>

\* CommandInfo::owner_only (the default is false)
owner_only(c) == c = "AdminCommand"

\* ------------------------------------------------------- the event handlers

EventTypes == {"ready", "message", "reaction_add"}

\* The EventHandler implementations the bot may register.
HandlerPool == {"ReadyHandler", "MessageHandler", "LogHandler", "ReactionHandler"}

\* EventHandler::event_type
event_type(h) ==
  CASE h = "ReadyHandler" -> "ready"
    [] h = "MessageHandler" -> "message"
    [] h = "LogHandler" -> "message"
    [] h = "ReactionHandler" -> "reaction_add"

Calls == 1..MaxCalls

VARIABLES
  phase,       \* "boot" while the registries are built, then "running"
  handlers,    \* EventDispatcher.handlers: event type -> handlers, in order
  calls,       \* per dispatch call: [st, et, i], i the loop's position
  tasks,       \* per dispatch call: the state of the task spawned per handler
  invoked,     \* per dispatch call: how often each handler's callback ran
  joined,      \* per dispatch call: what the dispatcher logged per join
  commands,    \* CommandHandler.commands: lower-cased name -> command
  aliases,     \* CommandHandler.aliases: lower-cased alias -> name
  prefix,      \* CommandHandler.prefix
  regs,        \* register_command calls made so far
  rt,          \* the message being handled by handle_message, and its course
  readers,     \* read guards held on the client data map
  lookup,      \* the last get_command call: its argument and its result
  gate,        \* the last permission check: its inputs and its result
  mt,          \* per dispatch call: the handle_message call of its message task
  listing,     \* the last command_names call and the registrations it follows
  boot,        \* main: its position, what it finds in the environment, what it loaded
  writer       \* the write side of the client data map's lock, and the map's version

dispatcherVars == <<handlers, calls, tasks, invoked, joined>>
registryVars == <<commands, aliases, prefix, regs>>
routerVars == <<rt, readers>>
vars == <<phase, handlers, calls, tasks, invoked, joined, commands, aliases,
          prefix, regs, rt, readers, lookup, gate, mt, listing, boot, writer>>

\* A key absent from a map.
None == "None"

IdleCall == [st |-> "idle", et |-> None, i |-> 0]
IdleTask == [st |-> "idle"]
NoLookup == [called |-> FALSE, token |-> <<>>, result |-> None]
NoGate == [fn |-> None]
NoMessage == [st |-> "idle"]
NoListing == [called |-> FALSE, order |-> <<>>, names |-> <<>>]
NoBoot == [pc |-> None]
NoWriter == [st |-> "none", version |-> 0]

\* ---------------------------------------------------- the event dispatcher

\* HashMap::get on the handler map: the handlers of a type, none when the
\* type is no key.
HandlersFor(et) == IF et \in DOMAIN handlers THEN handlers[et] ELSE <<>>

\* The handlers moved into the dispatcher so far.
RegisteredHandlers ==
  {h \in HandlerPool : \E et \in DOMAIN handlers : \E k \in 1..Len(handlers[et]) : handlers[et][k] = h}

\* A variant of register_handler that puts the handler at the front of the
\* list of its event type.
register_handler_front(h) ==
  /\ phase = "boot"
  /\ h \notin RegisteredHandlers
  /\ LET et == event_type(h) IN
       handlers' = IF et \in DOMAIN handlers
                   THEN [handlers EXCEPT ![et] = <<h>> \o @]
                   ELSE handlers @@ (et :> <<h>>)
  /\ UNCHANGED <<phase, calls, tasks, invoked, joined, registryVars, routerVars, lookup, gate, mt, listing, boot, writer>>

\* A variant of register_handler that keeps every handler in the list of
\* message handlers.
register_handler_message(h) ==
  /\ phase = "boot"
  /\ h \notin RegisteredHandlers
  /\ handlers' = IF "message" \in DOMAIN handlers
                 THEN [handlers EXCEPT !["message"] = Append(@, h)]
                 ELSE handlers @@ ("message" :> <<h>>)
  /\ UNCHANGED <<phase, calls, tasks, invoked, joined, registryVars, routerVars, lookup, gate, mt, listing, boot, writer>>

\* EventDispatcher::register_handler: entry(event_type).or_insert_with(Vec::new)
\* .push(handler).  The handler is moved in, so an instance registers once;
\* &mut self keeps registration apart from every dispatch.
register_handler(h) ==
  /\ phase = "boot"
  /\ h \notin RegisteredHandlers
  /\ LET et == event_type(h) IN
       handlers' = IF et \in DOMAIN handlers
                   THEN [handlers EXCEPT ![et] = Append(@, h)]
                   ELSE handlers @@ (et :> <<h>>)
  /\ UNCHANGED <<phase, calls, tasks, invoked, joined, registryVars, routerVars, lookup, gate, mt, listing, boot, writer>>

\* Bot::start: the dispatcher is moved into the serenity client and
\* client.start() begins to deliver events.
start ==
  /\ phase = "boot"
  /\ phase' = "running"
  /\ UNCHANGED <<dispatcherVars, registryVars, routerVars, lookup, gate, mt, listing, boot, writer>>

\* A variant of DispatchBegin in which a type with no handler list is an
\* error of the dispatch call.
DispatchBeginStrict(c, et) ==
  /\ phase = "running"
  /\ calls[c].st = "idle"
  /\ LET n == Len(HandlersFor(et)) IN
       /\ calls' = [calls EXCEPT ![c] =
                      [st |-> IF et \in DOMAIN handlers THEN "loop" ELSE "failed",
                       et |-> et, i |-> 1]]
       /\ tasks' = [tasks EXCEPT ![c] = [k \in 1..n |-> "none"]]
       /\ invoked' = [invoked EXCEPT ![c] = [k \in 1..n |-> 0]]
       /\ joined' = [joined EXCEPT ![c] = <<>>]
  /\ UNCHANGED <<phase, handlers, registryVars, routerVars, lookup, gate, mt, listing, boot, writer>>

\* The entry of dispatch_ready / dispatch_message / dispatch_reaction_add:
\* `if let Some(handlers) = self.handlers.get(et)`, and the loop starts at the
\* first handler; with no handler list the call returns at once.
DispatchBegin(c, et) ==
  /\ phase = "running"
  /\ calls[c].st = "idle"
  /\ LET n == Len(HandlersFor(et)) IN
       /\ calls' = [calls EXCEPT ![c] =
                      [st |-> IF et \in DOMAIN handlers THEN "loop" ELSE "returned",
                       et |-> et, i |-> 1]]
       /\ tasks' = [tasks EXCEPT ![c] = [k \in 1..n |-> "none"]]
       /\ invoked' = [invoked EXCEPT ![c] = [k \in 1..n |-> 0]]
       /\ joined' = [joined EXCEPT ![c] = <<>>]
  /\ UNCHANGED <<phase, handlers, registryVars, routerVars, lookup, gate, mt, listing, boot, writer>>

dispatch_ready(c) == DispatchBegin(c, "ready")

dispatch_message(c) == DispatchBegin(c, "message")

dispatch_reaction_add(c) == DispatchBegin(c, "reaction_add")

\* A variant of Spawn that does not wait for the task: the loop goes on to
\* the next handler at once.
SpawnDetached(c) ==
  /\ calls[c].st = "loop"
  /\ calls[c].i <= Len(HandlersFor(calls[c].et))
  /\ tasks' = [tasks EXCEPT ![c][calls[c].i] = "spawned"]
  /\ calls' = [calls EXCEPT ![c].i = @ + 1]
  /\ UNCHANGED <<phase, handlers, invoked, joined, registryVars, routerVars, lookup, gate, mt, listing, boot, writer>>

\* `tokio::spawn(async move { handler_clone.on_...(ctx_clone, &payload).await })`
\* for the loop's current handler; the dispatcher then sits in `.await` on the
\* JoinHandle of that task.
Spawn(c) ==
  /\ calls[c].st = "loop"
  /\ calls[c].i <= Len(HandlersFor(calls[c].et))
  /\ tasks' = [tasks EXCEPT ![c][calls[c].i] = "spawned"]
  /\ calls' = [calls EXCEPT ![c].st = "await"]
  /\ UNCHANGED <<phase, handlers, invoked, joined, registryVars, routerVars, lookup, gate, mt, listing, boot, writer>>

\* The runtime polls a spawned task: the handler's callback is entered.
TaskRun(c, k) ==
  /\ k \in DOMAIN tasks[c]
  /\ tasks[c][k] = "spawned"
  /\ tasks' = [tasks EXCEPT ![c][k] = "running"]
  /\ invoked' = [invoked EXCEPT ![c][k] = @ + 1]
  /\ UNCHANGED <<phase, handlers, calls, joined, registryVars, routerVars, lookup, gate, mt, listing, boot, writer>>

\* The callback returns.
TaskComplete(c, k) ==
  /\ k \in DOMAIN tasks[c]
  /\ tasks[c][k] = "running"
  /\ tasks' = [tasks EXCEPT ![c][k] = "done"]
  /\ UNCHANGED <<phase, handlers, calls, invoked, joined, registryVars, routerVars, lookup, gate, mt, listing, boot, writer>>

\* The callback panics: tokio catches the panic at the task's boundary and
\* the JoinHandle resolves to Err(JoinError).
TaskPanic(c, k) ==
  /\ k \in DOMAIN tasks[c]
  /\ tasks[c][k] = "running"
  /\ tasks' = [tasks EXCEPT ![c][k] = "panicked"]
  /\ UNCHANGED <<phase, handlers, calls, invoked, joined, registryVars, routerVars, lookup, gate, mt, listing, boot, writer>>

\* The callback suspends on something that never resolves (no timeout wraps
\* a handler): the task never finishes.
TaskHang(c, k) ==
  /\ k \in DOMAIN tasks[c]
  /\ tasks[c][k] = "running"
  /\ tasks' = [tasks EXCEPT ![c][k] = "hung"]
  /\ UNCHANGED <<phase, handlers, calls, invoked, joined, registryVars, routerVars, lookup, gate, mt, listing, boot, writer>>

\* A variant of Join in which a panicked handler ends the dispatch call.
JoinAbortOnPanic(c) ==
  /\ calls[c].st = "await"
  /\ tasks[c][calls[c].i] \in {"done", "panicked"}
  /\ joined' = [joined EXCEPT ![c] =
                  Append(@, IF tasks[c][calls[c].i] = "done" THEN "completed" ELSE "panicked")]
  /\ calls' = [calls EXCEPT ![c] =
                 IF tasks[c][calls[c].i] = "panicked"
                 THEN [@ EXCEPT !.st = "returned"]
                 ELSE [@ EXCEPT !.st = "loop", !.i = @ + 1]]
  /\ UNCHANGED <<phase, handlers, tasks, invoked, registryVars, routerVars, lookup, gate, mt, listing, boot, writer>>

\* The JoinHandle resolves: `Ok(_) => debug!(.. completed)`, `Err(e) =>
\* error!(.. panicked)`, and the loop moves to the next handler.
Join(c) ==
  /\ calls[c].st = "await"
  /\ tasks[c][calls[c].i] \in {"done", "panicked"}
  /\ joined' = [joined EXCEPT ![c] =
                  Append(@, IF tasks[c][calls[c].i] = "done" THEN "completed" ELSE "panicked")]
  /\ calls' = [calls EXCEPT ![c] = [@ EXCEPT !.st = "loop", !.i = @ + 1]]
  /\ UNCHANGED <<phase, handlers, tasks, invoked, registryVars, routerVars, lookup, gate, mt, listing, boot, writer>>

\* A variant of Return that empties the handler list of the call's type.
ReturnDropHandlers(c) ==
  /\ calls[c].st = "loop"
  /\ calls[c].i > Len(HandlersFor(calls[c].et))
  /\ calls' = [calls EXCEPT ![c].st = "returned"]
  /\ handlers' = [et \in DOMAIN handlers |-> IF et = calls[c].et THEN <<>> ELSE handlers[et]]
  /\ UNCHANGED <<phase, tasks, invoked, joined, registryVars, routerVars, lookup, gate, mt, listing, boot, writer>>

\* The loop is past the last handler: the dispatch call returns.
Return(c) ==
  /\ calls[c].st = "loop"
  /\ calls[c].i > Len(HandlersFor(calls[c].et))
  /\ calls' = [calls EXCEPT ![c].st = "returned"]
  /\ UNCHANGED <<phase, handlers, tasks, invoked, joined, registryVars, routerVars, lookup, gate, mt, listing, boot, writer>>

\* The caller (BotEventHandler::ready / ::message) is done with the call;
\* the slot takes the next gateway event.
Finish(c) ==
  /\ calls[c].st = "returned"
  /\ calls' = [calls EXCEPT ![c] = IdleCall]
  /\ tasks' = [tasks EXCEPT ![c] = <<>>]
  /\ invoked' = [invoked EXCEPT ![c] = <<>>]
  /\ joined' = [joined EXCEPT ![c] = <<>>]
  /\ UNCHANGED <<phase, handlers, registryVars, routerVars, lookup, gate, mt, listing, boot, writer>>

\* A step of the dispatcher's own control flow within call c.
DispatcherStep(c) == Spawn(c) \/ Join(c) \/ Return(c)

\* Everything but the permission check's record: nothing is registered, no
\* call is in flight, the prefix is the default one (CommandHandler::new).
InitBase ==
  /\ phase = "boot"
  /\ handlers = <<>>
  /\ calls = [c \in Calls |-> IdleCall]
  /\ tasks = [c \in Calls |-> <<>>]
  /\ invoked = [c \in Calls |-> <<>>]
  /\ joined = [c \in Calls |-> <<>>]
  /\ commands = <<>>
  /\ aliases = <<>>
  /\ prefix = DEFAULT_PREFIX
  /\ regs = 0
  /\ rt = IdleTask
  /\ readers = 0
  /\ lookup = NoLookup
  /\ mt = [c \in Calls |-> NoMessage]
  /\ writer = NoWriter

Init == InitBase /\ gate = NoGate /\ listing = NoListing /\ boot = NoBoot

Next ==
  \/ \E h \in HandlerPool : register_handler(h)
  \/ start
  \/ \E c \in Calls : dispatch_ready(c)
  \/ \E c \in Calls : dispatch_message(c)
  \/ \E c \in Calls : dispatch_reaction_add(c)
  \/ \E c \in Calls : Spawn(c)
  \/ \E c \in Calls, k \in 1..Cardinality(HandlerPool) : TaskRun(c, k)
  \/ \E c \in Calls, k \in 1..Cardinality(HandlerPool) : TaskComplete(c, k)
  \/ \E c \in Calls, k \in 1..Cardinality(HandlerPool) : TaskPanic(c, k)
  \/ \E c \in Calls, k \in 1..Cardinality(HandlerPool) : TaskHang(c, k)
  \/ \E c \in Calls : Join(c)
  \/ \E c \in Calls : Return(c)
  \/ \E c \in Calls : Finish(c)

\* The event dispatcher: handlers are registered, the bot starts, events are
\* dispatched.
Spec == Init /\ [][Next]_vars

\* --------------------------------------------------- claims on the dispatcher

\* C1: a dispatch call runs the callback of every handler registered for the
\* event type exactly once: no callback runs twice, and when the call has
\* returned every handler of the type has run once, whichever of them
\* panicked (a panic is logged at the join and the loop goes on).
C1_EachHandlerInvokedOnce ==
  \A c \in Calls :
    /\ \A k \in DOMAIN invoked[c] : invoked[c][k] <= 1
    /\ calls[c].st = "returned" =>
         /\ DOMAIN invoked[c] = 1..Len(HandlersFor(calls[c].et))
         /\ \A k \in DOMAIN invoked[c] : invoked[c][k] = 1
         /\ Len(joined[c]) = Len(HandlersFor(calls[c].et))
         /\ \A k \in DOMAIN tasks[c] :
              joined[c][k] = (IF tasks[c][k] = "panicked" THEN "panicked" ELSE "completed")

\* C1's case: a returned dispatch over two handlers whose first one panicked.
C1_Witness ==
  \E c \in Calls :
    /\ calls[c].st = "returned"
    /\ Len(HandlersFor(calls[c].et)) >= 2
    /\ tasks[c][1] = "panicked"
    /\ invoked[c][2] = 1

\* C2: within one dispatch call the handlers run concurrently: while an
\* earlier handler's task is unfinished and the next handler is not started
\* yet, the dispatcher is able to start the next handler.
C2_LaterHandlerCanStartEarly ==
  \A c \in Calls : \A k \in DOMAIN tasks[c] :
    (/\ k + 1 \in DOMAIN tasks[c]
     /\ tasks[c][k] \in {"spawned", "running"}
     /\ tasks[c][k + 1] = "none")
    => ENABLED Spawn(c)

\* C3: a handler that never completes blocks only its own task: the dispatch
\* call that started it has returned or is able to go on (start the next
\* handler, or return).
C3_HungHandlerBlocksOnlyItself ==
  \A c \in Calls : \A k \in DOMAIN tasks[c] :
    tasks[c][k] = "hung" => (calls[c].st = "returned" \/ ENABLED DispatcherStep(c))

\* ------------------------------------------------------ the command handler

\* A variant of Insert that keeps the entry a key already has.
InsertIfAbsent(m, k, v) == [x \in DOMAIN m \cup {k} |-> IF x \in DOMAIN m THEN m[x] ELSE v]

\* HashMap::insert: the entry of key k is v, whatever it was before.
Insert(m, k, v) == [x \in DOMAIN m \cup {k} |-> IF x = k THEN v ELSE m[x]]

\* The loop `for alias in command.aliases()` of register_command: each
\* lower-cased alias is inserted into the alias map with the command's
\* lower-cased name as its value.
RECURSIVE InsertAliases(_, _, _)
InsertAliases(m, as, nm) ==
  IF as = <<>> THEN m
  ELSE InsertAliases(Insert(m, to_lowercase(Head(as)), nm), Tail(as), nm)

\* A variant of CommandKey that keeps the case of the name.
CommandKeyRaw(c) == name(c)

\* `let name = command.name().to_lowercase()`: the key of a command in the
\* command map.
CommandKey(c) == to_lowercase(name(c))

\* CommandHandler::with_prefix
with_prefix(p) ==
  /\ phase = "boot"
  /\ prefix' = p
  /\ UNCHANGED <<phase, dispatcherVars, commands, aliases, regs, routerVars, lookup, gate, mt, listing, boot, writer>>

\* CommandHandler::register_command: the command is inserted under its
\* lower-cased name, then each alias under its lower-cased form; nothing is
\* looked up before either insert.
register_command(c) ==
  /\ phase = "boot"
  /\ regs < MaxRegs
  /\ commands' = Insert(commands, CommandKey(c), c)
  /\ aliases' = InsertAliases(aliases, command_aliases(c), to_lowercase(name(c)))
  /\ regs' = regs + 1
  /\ UNCHANGED <<phase, dispatcherVars, prefix, routerVars, lookup, gate, mt, listing, boot, writer>>

\* A variant of GetCommand that falls back to some registered command.
GetCommandOrAny(t) ==
  LET n == to_lowercase(t) IN
    IF n \in DOMAIN commands THEN commands[n]
    ELSE IF n \in DOMAIN aliases /\ aliases[n] \in DOMAIN commands
         THEN commands[aliases[n]]
         ELSE IF commands = <<>> THEN None
              ELSE commands[CHOOSE k \in DOMAIN commands : TRUE]

\* CommandHandler::get_command: the lower-cased name is looked up in the
\* command map first, then in the alias map.
GetCommand(t) ==
  LET n == to_lowercase(t) IN
    IF n \in DOMAIN commands THEN commands[n]
    ELSE IF n \in DOMAIN aliases /\ aliases[n] \in DOMAIN commands
         THEN commands[aliases[n]]
         ELSE None

\* The names get_command is called with.
LookupNames == StringsUpTo(NameChars, MaxName)

\* A call of CommandHandler::get_command, on the registry as built.
get_command(t) ==
  /\ phase = "running"
  /\ lookup' = [called |-> TRUE, token |-> t, result |-> GetCommand(t)]
  /\ UNCHANGED <<phase, dispatcherVars, registryVars, routerVars, gate, mt, listing, boot, writer>>

\* BotConfig.owners, as the configuration in the client data map gives it.
Owners == {42}

\* The authors of inbound messages: msg.author.id and msg.author.bot.
Authors == {[id |-> 42, bot |-> FALSE], [id |-> 7, bot |-> FALSE], [id |-> 99, bot |-> TRUE]}

\* The inbound messages.
Messages == [content : StringsUpTo(ContentChars, MaxLen), author : Authors]

\* A variant of PrefixMatches that lets every message through.
PrefixMatchesAlways(content) == TRUE

\* `msg.content.starts_with(&self.prefix)`
PrefixMatches(content) == starts_with(content, prefix)

\* A variant of ContentWords in which an empty command line stands for some
\* registered command.
ContentWordsDefault(content) ==
  LET w == split_whitespace(trim_start_matches(content, prefix)) IN
    IF w = <<>> /\ commands # <<>> THEN <<CHOOSE k \in DOMAIN commands : TRUE>> ELSE w

\* `msg.content.trim_start_matches(&self.prefix)` and `split_whitespace()`:
\* the words of the content behind the prefix.
ContentWords(content) == split_whitespace(trim_start_matches(content, prefix))

\* `self.aliases.get(&cmd_name).unwrap_or(&cmd_name)`: the alias map is
\* consulted first, and a token that is no alias stands for itself.
CommandName(cmd_name) ==
  IF cmd_name \in DOMAIN aliases THEN aliases[cmd_name] ELSE cmd_name

\* A variant of Route without the check of msg.author.bot.
RouteBotsToo(msg) ==
  IF ~PrefixMatches(msg.content) THEN [run |-> FALSE]
  ELSE LET args == ContentWords(msg.content) IN
    IF args = <<>> THEN [run |-> FALSE]
    ELSE LET cmd_name == to_lowercase(Head(args))
             command_name == CommandName(cmd_name) IN
      IF command_name \notin DOMAIN commands THEN [run |-> FALSE]
      ELSE [run |-> TRUE,
            cmd_name |-> cmd_name,
            command_name |-> command_name,
            command |-> commands[command_name],
            arguments |-> Tail(args)]

\* handle_message up to `ctx.data.read()`: what the message is routed to.
\* run is FALSE on each of the early `return Ok(())`.
Route(msg) ==
  IF msg.author.bot THEN [run |-> FALSE]
  ELSE IF ~PrefixMatches(msg.content) THEN [run |-> FALSE]
  ELSE LET args == ContentWords(msg.content) IN
    IF args = <<>> THEN [run |-> FALSE]
    ELSE LET cmd_name == to_lowercase(Head(args))
             command_name == CommandName(cmd_name) IN
      IF command_name \notin DOMAIN commands THEN [run |-> FALSE]
      ELSE [run |-> TRUE,
            cmd_name |-> cmd_name,
            command_name |-> command_name,
            command |-> commands[command_name],
            arguments |-> Tail(args)]

\* MessageHandler::on_message calls CommandHandler::handle_message, which
\* returns Ok(()) at once for a message it does not route, and otherwise
\* goes on to take the read lock of the client data map.
on_message ==
  /\ phase = "running"
  /\ rt.st = "idle"
  /\ \E msg \in Messages :
       LET r == Route(msg) IN
         rt' = IF r.run
               THEN [st |-> "locking", msg |-> msg, route |-> r, execs |-> 0]
               ELSE [st |-> "done", msg |-> msg, execs |-> 0, result |-> "Ok", outcome |-> "discarded"]
  /\ UNCHANGED <<phase, dispatcherVars, registryVars, readers, lookup, gate, mt, listing, boot, writer>>

\* `let data = ctx.data.read().await`, the CommandContext is built from the
\* message, the collected arguments and the guard, and command.execute is
\* entered.  (No task holds the write lock while the bot runs: Bot::start
\* releases it before client.start().)
Execute ==
  /\ rt.st = "locking"
  /\ readers' = readers + 1
  /\ rt' = [st |-> "executing", msg |-> rt.msg, route |-> rt.route, execs |-> rt.execs + 1,
            ctx |-> [msg |-> rt.msg, args |-> rt.route.arguments, command |-> rt.route.command]]
  /\ UNCHANGED <<phase, dispatcherVars, registryVars, lookup, gate, mt, listing, boot, writer>>

\* A variant of ExecuteReturn in which a failed execution is tried again.
ExecuteReturnRetry(res) ==
  /\ rt.st = "executing"
  /\ readers' = readers - 1
  /\ rt' = IF res = "failed"
           THEN [st |-> "locking", msg |-> rt.msg, route |-> rt.route, execs |-> rt.execs]
           ELSE [st |-> "done", msg |-> rt.msg, route |-> rt.route, execs |-> rt.execs, ctx |-> rt.ctx,
                 result |-> "Ok", outcome |-> res]
  /\ UNCHANGED <<phase, dispatcherVars, registryVars, lookup, gate, mt, listing, boot, writer>>

\* command.execute returns Ok(()) or Err(e); either is logged, the guard is
\* dropped and handle_message returns Ok(()).
ExecuteReturn(res) ==
  /\ rt.st = "executing"
  /\ readers' = readers - 1
  /\ rt' = [st |-> "done", msg |-> rt.msg, route |-> rt.route, execs |-> rt.execs, ctx |-> rt.ctx,
            result |-> "Ok", outcome |-> res]
  /\ UNCHANGED <<phase, dispatcherVars, registryVars, lookup, gate, mt, listing, boot, writer>>

\* The handler task of the message ends; the next message is taken.
NextMessage ==
  /\ rt.st = "done"
  /\ rt' = IdleTask
  /\ UNCHANGED <<phase, dispatcherVars, registryVars, readers, lookup, gate, mt, listing, boot, writer>>

RouterNext ==
  \/ \E p \in Prefixes : with_prefix(p)
  \/ \E c \in CommandPool : register_command(c)
  \/ start
  \/ on_message
  \/ Execute
  \/ \E res \in {"succeeded", "failed"} : ExecuteReturn(res)
  \/ NextMessage

\* The command handler: the prefix is set and commands are registered, the
\* bot starts, and messages are handled one after the other.
RouterSpec == Init /\ [][RouterNext]_vars

LookupNext ==
  \/ \E p \in Prefixes : with_prefix(p)
  \/ \E c \in CommandPool : register_command(c)
  \/ start
  \/ \E t \in LookupNames : get_command(t)

\* The command registry: commands are registered and looked up by name.
LookupSpec == Init /\ [][LookupNext]_vars

\* ---------------------------------------------------- the permission gate

\* An Option is the set of its values: None is {} and Some(x) is {x}.
Some(x) == {x}

UserIds == {7, 42}

\* Permissions is a bit set; contains(required) is `required \subseteq`.
PermissionBits == {"ADMINISTRATOR", "MANAGE_MESSAGES"}
Permissions == SUBSET PermissionBits

\* Member.permissions is an Option<Permissions>.
Members == [permissions : {{}} \cup {Some(p) : p \in Permissions}]

\* The arguments of validate_command and check_permissions, and what the
\* platform answers: msg.author.id, msg.guild_id (is it Some), msg.member,
\* and the result of guild_id.member(..) (ok is FALSE for an Err).
GateInputs ==
  [owner_only : BOOLEAN,
   owners : SUBSET UserIds,
   author : UserIds,
   required : Permissions,
   guild : BOOLEAN,
   member : {{}} \cup {Some(m) : m \in Members},
   fetched : {[ok |-> FALSE, member |-> {}]} \cup
             [ok : {TRUE}, member : {{}} \cup {Some(m) : m \in Members}]]

\* CommandResult<()>
ResultOk == [kind |-> "Ok", perms |-> {}]
MissingPermissions(p) == [kind |-> "MissingPermissions", perms |-> p]
ResultError(k) == [kind |-> k, perms |-> {}]

\* check_permissions: Err only when msg.member is Some, its permissions are
\* Some and do not contain the required ones; Ok(()) in every other case.
check_permissions(g) ==
  IF \E m \in g.member : \E p \in m.permissions : ~(g.required \subseteq p)
  THEN MissingPermissions(g.required)
  ELSE ResultOk

\* A variant of validate_command that checks the owner set for every
\* command.
validate_command_owners(g) ==
  IF g.author \notin g.owners THEN MissingPermissions({})
  ELSE IF ~g.guild THEN ResultOk
  ELSE IF ~g.fetched.ok THEN ResultError("SerenityError")
  ELSE IF g.fetched.member = {} THEN ResultOk
  ELSE LET m == CHOOSE m \in g.fetched.member : TRUE IN
    IF m.permissions = {} THEN ResultError("NoneError")
    ELSE LET p == CHOOSE p \in m.permissions : TRUE IN
      IF ~(g.required \subseteq p) THEN MissingPermissions(g.required) ELSE ResultOk

\* validate_command: the owner check, then the member's permissions when the
\* message is from a guild.  `.await?` returns the platform's error, and
\* `member.permissions?` returns early when the permissions are None.
validate_command(g) ==
  IF g.owner_only /\ g.author \notin g.owners THEN MissingPermissions({})
  ELSE IF ~g.guild THEN ResultOk
  ELSE IF ~g.fetched.ok THEN ResultError("SerenityError")
  ELSE IF g.fetched.member = {} THEN ResultOk
  ELSE LET m == CHOOSE m \in g.fetched.member : TRUE IN
    IF m.permissions = {} THEN ResultError("NoneError")
    ELSE LET p == CHOOSE p \in m.permissions : TRUE IN
      IF ~(g.required \subseteq p) THEN MissingPermissions(g.required) ELSE ResultOk

\* A call of check_permissions
CheckPermissions ==
  /\ gate.fn = None
  /\ gate' = [fn |-> "check_permissions", input |-> gate.input, out |-> check_permissions(gate.input)]
  /\ UNCHANGED <<phase, dispatcherVars, registryVars, routerVars, lookup, mt, listing, boot, writer>>

\* A call of validate_command
ValidateCommand ==
  /\ gate.fn = None
  /\ gate' = [fn |-> "validate_command", input |-> gate.input, out |-> validate_command(gate.input)]
  /\ UNCHANGED <<phase, dispatcherVars, registryVars, routerVars, lookup, mt, listing, boot, writer>>

GateInit ==
  InitBase /\ gate \in [fn : {None}, input : GateInputs] /\ listing = NoListing /\ boot = NoBoot

GateNext == CheckPermissions \/ ValidateCommand

\* The permission helpers, applied to every input of the bounded sets.
GateSpec == GateInit /\ [][GateNext]_vars

\* ------------------------------------------------ claims on the command handler

\* p is a prefix of s, character by character.
IsPrefixOf(p, s) == \A i \in 1..Len(p) : i \in DOMAIN s /\ s[i] = p[i]

\* The handled message led to a command execution.
Executed == rt.st \in {"executing", "done"} /\ rt.execs > 0

\* C4: a message whose content does not start with the configured prefix is
\* discarded: handle_message returns with no command executed, whatever is
\* registered.
C4_NoPrefixNoInvocation ==
  (rt.st # "idle" /\ ~IsPrefixOf(prefix, rt.msg.content))
  => (rt.st = "done" /\ rt.execs = 0 /\ rt.outcome = "discarded")

\* C4's case: a discarded message from a user whose content is a registered
\* name without the prefix.
C4_Witness ==
  /\ rt.st = "done"
  /\ ~rt.msg.author.bot
  /\ ~IsPrefixOf(prefix, rt.msg.content)
  /\ to_lowercase(rt.msg.content) \in DOMAIN commands

\* The content behind one occurrence of the prefix.
AfterPrefix(content) == SubSeq(content, Len(prefix) + 1, Len(content))

\* The positions at which a word of s starts: a non-whitespace character at
\* the start of s or behind a whitespace character.
WordStarts(s) ==
  {i \in 1..Len(s) : s[i] \notin Whitespace /\ (i = 1 \/ s[i - 1] \in Whitespace)}

\* The word of s that starts at i: the longest whitespace-free run from i.
WordAt(s, i) ==
  SubSeq(s, i, CHOOSE j \in i..Len(s) :
                 /\ \A k \in i..j : s[k] \notin Whitespace
                 /\ (j = Len(s) \/ s[j + 1] \in Whitespace))

\* The whitespace-separated words of s, in order.
WordsOf(s) ==
  [n \in 1..Cardinality(WordStarts(s)) |->
     WordAt(s, CHOOSE i \in WordStarts(s) : Cardinality({j \in WordStarts(s) : j < i}) = n - 1)]

\* The commands a lower-cased token stands for: the one registered under it
\* as a name, the one an alias of that form maps to.
CommandsFor(t) ==
  {commands[k] : k \in {t} \cap DOMAIN commands}
  \cup {commands[aliases[k]] : k \in {k \in {t} \cap DOMAIN aliases : aliases[k] \in DOMAIN commands}}

\* C5: for a message prefix + token + words, the command executed is the one
\* the lower-cased token stands for, and its arguments are exactly the words
\* behind the token, in order and unchanged; and such a message is discarded
\* only when the lower-cased token stands for no command.
C5_TokenAndArguments ==
  LET w == WordsOf(AfterPrefix(rt.msg.content)) IN
    /\ Executed =>
         /\ w # <<>>
         /\ rt.ctx.command \in CommandsFor(to_lowercase(w[1]))
         /\ rt.ctx.args = Tail(w)
    /\ (/\ rt.st = "done"
        /\ rt.execs = 0
        /\ ~rt.msg.author.bot
        /\ IsPrefixOf(prefix, rt.msg.content)
        /\ w # <<>>)
       => CommandsFor(to_lowercase(w[1])) = {}

\* C6: for an owner-only command, validate_command lets an owner through and
\* answers MissingPermissions to anyone else, and the execute body of an
\* owner-only command is entered only for an author of the owner set.
C6_OwnerOnlyGate ==
  /\ \A os \in SUBSET UserIds : \A a \in UserIds :
       LET g == [owner_only |-> TRUE, owners |-> os, author |-> a, required |-> {},
                 guild |-> FALSE, member |-> {}, fetched |-> [ok |-> FALSE, member |-> {}]] IN
         validate_command(g).kind = (IF a \in os THEN "Ok" ELSE "MissingPermissions")
  /\ (Executed /\ owner_only(rt.ctx.command)) => rt.msg.author.id \in Owners

\* The permission set a check resolved for the author, as an Option:
\* msg.member's for check_permissions, the fetched member's for
\* validate_command.
ResolvedPermissions ==
  IF gate.fn = "check_permissions"
  THEN UNION {m.permissions : m \in gate.input.member}
  ELSE IF gate.input.guild /\ gate.input.fetched.ok
       THEN UNION {m.permissions : m \in gate.input.fetched.member}
       ELSE {}

\* C7: a check for a non-empty required set answers Ok only when a
\* permission set was resolved for the author and contains the required set;
\* check_permissions answers MissingPermissions in every other case.
C7_PermissionGateRejects ==
  (gate.fn # None /\ gate.input.required # {})
  => LET granted == \E p \in ResolvedPermissions : gate.input.required \subseteq p IN
       /\ gate.out.kind = "Ok" => granted
       /\ (gate.fn = "check_permissions" /\ ~granted) => gate.out.kind = "MissingPermissions"

\* Command c is in the registry.
IsRegistered(c) == CommandKey(c) \in DOMAIN commands /\ commands[CommandKey(c)] = c

\* The lower-cased name and aliases of command c.
NamesOf(c) ==
  {to_lowercase(name(c))}
  \cup {to_lowercase(command_aliases(c)[i]) : i \in 1..Len(command_aliases(c))}

\* C8: get_command, called with any case variant of the name or of an alias
\* of a registered command, returns that command.
C8_GetCommandResolves ==
  lookup.called =>
    \A c \in CommandPool :
      (IsRegistered(c) /\ to_lowercase(lookup.token) \in NamesOf(c)) => lookup.result = c

\* C9: no register_command call overwrites an entry: every key of the
\* command map and of the alias map keeps the value it has.
C9_NoEntryOverwritten ==
  [][/\ \A k \in DOMAIN commands : k \in DOMAIN commands' /\ commands'[k] = commands[k]
     /\ \A k \in DOMAIN aliases : k \in DOMAIN aliases' /\ aliases'[k] = aliases[k]]_vars

\* C10: every alias maps to a key of the command map.
C10_NoDanglingAlias == \A k \in DOMAIN aliases : aliases[k] \in DOMAIN commands

\* C10's case: two registrations, the second of a command with an alias of
\* the first.
C10_Witness ==
  /\ regs >= 2
  /\ Cardinality(DOMAIN commands) >= 2
  /\ \E k \in DOMAIN aliases : commands[aliases[k]] = "AdminCommand"

\* C11: no registered name collides with another name or with an alias: the
\* key sets of the command map and of the alias map are disjoint, and every
\* register_command call has a key of its own in the command map.
C11_NamesAndAliasesDisjoint ==
  /\ DOMAIN commands \cap DOMAIN aliases = {}
  /\ Cardinality(DOMAIN commands) = regs

\* The words the router splits a content into, behind the prefix as it
\* strips it.
RouterWords(content) == WordsOf(trim_start_matches(content, prefix))

\* C13: a message leads to at most one execution: none when its token stands
\* for no registered name or alias (the message is discarded and
\* handle_message returns Ok), exactly one when it does, and an execution
\* that failed is not entered again.
C13_AtMostOneExecution ==
  rt.st # "idle" =>
    /\ rt.execs <= 1
    /\ rt.st = "done" => ~ENABLED Execute
    /\ (rt.st = "done" /\ ~rt.msg.author.bot /\ IsPrefixOf(prefix, rt.msg.content)) =>
         LET w == RouterWords(rt.msg.content) IN
           IF w = <<>> \/ CommandsFor(to_lowercase(w[1])) = {}
           THEN rt.execs = 0 /\ rt.outcome = "discarded" /\ rt.result = "Ok"
           ELSE rt.execs = 1 /\ rt.outcome \in {"succeeded", "failed"}

\* C13's case: the one execution of a message has failed and handle_message
\* has returned.
C13_Witness == rt.st = "done" /\ rt.outcome = "failed" /\ rt.execs = 1

\* C14: a message of a bot account is discarded with no execution, whatever
\* its content.
C14_BotAuthorNeverExecutes ==
  (rt.st # "idle" /\ rt.msg.author.bot)
  => (rt.st = "done" /\ rt.execs = 0 /\ rt.outcome = "discarded")

\* C14's case: a bot's message whose content is the prefix and a registered
\* name or alias.
C14_Witness ==
  /\ rt.st = "done"
  /\ rt.msg.author.bot
  /\ IsPrefixOf(prefix, rt.msg.content)
  /\ LET w == WordsOf(AfterPrefix(rt.msg.content)) IN
       w # <<>> /\ CommandsFor(to_lowercase(w[1])) # {}

\* C15: a dispatch of a type with no registered handler is a no-op: the call
\* has returned with no task started, no callback run and nothing logged as
\* a failure.
C15_NoHandlerNoOp ==
  \A c \in Calls :
    (calls[c].st # "idle" /\ HandlersFor(calls[c].et) = <<>>)
    => /\ calls[c].st = "returned"
       /\ tasks[c] = <<>>
       /\ invoked[c] = <<>>
       /\ joined[c] = <<>>

\* C15's case: handlers are registered for another type, and a dispatch of
\* a type without handlers has returned.
C15_Witness ==
  \E c \in Calls :
    /\ calls[c].st = "returned"
    /\ calls[c].et \notin DOMAIN handlers
    /\ handlers # <<>>

\* C17: the handlers of a type are kept in registration order (a handler
\* list only grows at its end) and every dispatch starts them in that order:
\* a handler's task is started, and its callback entered, only when that
\* has happened for every handler before it in the list.
C17_StartedInRegistrationOrder ==
  /\ [](\A c \in Calls : \A k \in DOMAIN tasks[c] :
          /\ tasks[c][k] # "none" => \A j \in 1..(k - 1) : tasks[c][j] # "none"
          /\ invoked[c][k] = 1 => \A j \in 1..(k - 1) : invoked[c][j] = 1)
  /\ [][\A et \in DOMAIN handlers :
          /\ et \in DOMAIN handlers'
          /\ Len(handlers'[et]) >= Len(handlers[et])
          /\ SubSeq(handlers'[et], 1, Len(handlers[et])) = handlers[et]]_vars

\* C17's case: two handlers of one type, the second one started.
C17_Witness ==
  \E c \in Calls :
    /\ Len(HandlersFor(calls[c].et)) >= 2
    /\ 2 \in DOMAIN tasks[c]
    /\ tasks[c][2] = "running"

\* C16: get_command of a token that is neither a registered name nor a
\* registered alias answers not-found at every call, and no call changes the
\* command map, the alias map or the prefix.
C16_UnresolvedIsNotFound ==
  /\ []((/\ lookup.called
         /\ to_lowercase(lookup.token) \notin DOMAIN commands
         /\ to_lowercase(lookup.token) \notin DOMAIN aliases)
        => lookup.result = None)
  /\ [][lookup' # lookup => UNCHANGED <<commands, aliases, prefix>>]_vars

\* C16's case: with a command registered, a token that is no name and no
\* alias was looked up.
C16_Witness ==
  /\ lookup.called
  /\ lookup.token # <<>>
  /\ commands # <<>>
  /\ to_lowercase(lookup.token) \notin DOMAIN commands \cup DOMAIN aliases
  /\ lookup.result = None

\* ------------------------------------------------------- listing the registry

\* The sequences that enumerate a set, each element once.
Enumerations(S) ==
  {f \in [1..Cardinality(S) -> S] : \A i, j \in 1..Cardinality(S) : f[i] = f[j] => i = j}

\* The sequences of commands a bot registers, in order.
RegistrationOrders == UNION {[1..n -> CommandPool] : n \in 0..MaxRegs}

\* CommandHandler::command_names: `self.commands.keys().cloned().collect()`.
\* The keys come in the iteration order of the HashMap, which depends on the
\* hasher's per-process random state and not on the order of the inserts:
\* any enumeration of the key set can be the result.
command_names ==
  /\ phase = "running"
  /\ \E names \in Enumerations(DOMAIN commands) :
       listing' = [called |-> TRUE, order |-> listing.order, names |-> names]
  /\ UNCHANGED <<phase, dispatcherVars, registryVars, routerVars, lookup, gate, mt, boot, writer>>

\* The bot's register_command calls, made in the order listing.order gives.
RegisterInOrder ==
  /\ regs < Len(listing.order)
  /\ register_command(listing.order[regs + 1])

\* Bot::start, once every command is registered.
StartRegistered == regs = Len(listing.order) /\ start

ListInit ==
  /\ InitBase
  /\ gate = NoGate
  /\ listing \in [called : {FALSE}, order : RegistrationOrders, names : {<<>>}]
  /\ boot = NoBoot

ListNext ==
  \/ \E p \in Prefixes : with_prefix(p)
  \/ RegisterInOrder
  \/ StartRegistered
  \/ command_names

\* The registry, built by a given sequence of registrations and then listed.
ListSpec == ListInit /\ [][ListNext]_vars

\* C18: after registrations of distinct names, command_names yields the
\* registered names in the order of their registration.
C18_ListingInRegistrationOrder ==
  (/\ listing.called
   /\ \A i, j \in DOMAIN listing.order :
        to_lowercase(name(listing.order[i])) = to_lowercase(name(listing.order[j])) => i = j)
  => listing.names = [i \in DOMAIN listing.order |-> to_lowercase(name(listing.order[i]))]

\* ----------------------------------------------------------- the running bot

\* The messages the gateway delivers to the bot: a user's, with and without
\* the prefix and with different arguments, and a bot account's.
BotContents ==
  {<<"!", "a">>, <<"!", "a", " ", "x">>, <<"!", "x", " ", "a">>, <<"a">>}
BotMessages ==
  [content : BotContents, author : {a \in Authors : a.id = 7}]
  \cup [content : {<<"!", "a">>}, author : {a \in Authors : a.bot}]

\* Bot::start: ReadyHandler and MessageHandler (which takes the command
\* handler) are registered with a new dispatcher, the dispatcher is moved
\* into the serenity client, and client.start() begins to deliver events.
BotStart ==
  /\ phase = "boot"
  /\ handlers = <<>>
  /\ phase' = "running"
  /\ handlers' = ("ready" :> <<"ReadyHandler">>) @@ ("message" :> <<"MessageHandler">>)
  /\ UNCHANGED <<calls, tasks, invoked, joined, registryVars, routerVars, lookup, gate, mt, listing, boot, writer>>

\* The handler the task k of dispatch call c was spawned for.
HandlerOf(c, k) == HandlersFor(calls[c].et)[k]

\* ReadyHandler::on_ready is entered.
ReadyTaskRun(c) ==
  \E k \in DOMAIN tasks[c] : HandlerOf(c, k) = "ReadyHandler" /\ TaskRun(c, k)

\* ReadyHandler::on_ready returns.
ReadyTaskComplete(c) ==
  \E k \in DOMAIN tasks[c] : HandlerOf(c, k) = "ReadyHandler" /\ TaskComplete(c, k)

\* The task of MessageHandler is polled: on_message is entered with the
\* call's clone of the message and calls handle_message, which returns
\* Ok(()) at once for a message it does not route and otherwise goes on to
\* the read lock of the client data map.  (The message is drawn here, where
\* it is first looked at; the dispatcher only clones it.)
MessageTaskRun(c) ==
  /\ \E k \in DOMAIN tasks[c] :
       /\ HandlerOf(c, k) = "MessageHandler"
       /\ tasks[c][k] = "spawned"
       /\ tasks' = [tasks EXCEPT ![c][k] = "running"]
       /\ invoked' = [invoked EXCEPT ![c][k] = @ + 1]
  /\ \E msg \in BotMessages :
       LET r == Route(msg) IN
         mt' = [mt EXCEPT ![c] =
                  IF r.run
                  THEN [st |-> "locking", msg |-> msg, route |-> r, execs |-> 0]
                  ELSE [st |-> "done", msg |-> msg, execs |-> 0,
                        result |-> "Ok", outcome |-> "discarded", log |-> "none"]]
  /\ UNCHANGED <<phase, handlers, calls, joined, registryVars, routerVars, lookup, gate, listing, boot, writer>>

\* A variant of MessageTaskExecute that fills the context from the call the
\* router took up last, whichever call executes.
MessageTaskExecutePooled(c) ==
  /\ mt[c].st = "locking"
  /\ readers' = readers + 1
  /\ \E d \in Calls :
       /\ mt[d].st \in {"locking", "executing"}
       /\ mt' = [mt EXCEPT ![c] =
                   [st |-> "executing", msg |-> mt[c].msg, route |-> mt[c].route,
                    execs |-> mt[c].execs + 1,
                    ctx |-> [msg |-> mt[d].msg, args |-> mt[d].route.arguments,
                             command |-> mt[c].route.command]]]
  /\ UNCHANGED <<phase, dispatcherVars, registryVars, rt, lookup, gate, listing, boot, writer>>

\* handle_message in the task of call c: `ctx.data.read().await` (a read
\* guard is granted next to those of other calls), the CommandContext is
\* built from this call's message and arguments and the guard, and
\* command.execute is entered.
MessageTaskExecute(c) ==
  /\ mt[c].st = "locking"
  /\ readers' = readers + 1
  /\ mt' = [mt EXCEPT ![c] =
              [st |-> "executing", msg |-> mt[c].msg, route |-> mt[c].route,
               execs |-> mt[c].execs + 1,
               ctx |-> [msg |-> mt[c].msg, args |-> mt[c].route.arguments,
                        command |-> mt[c].route.command]]]
  /\ UNCHANGED <<phase, dispatcherVars, registryVars, rt, lookup, gate, listing, boot, writer>>

\* A variant of MessageTaskExecuteReturn in which handle_message returns the
\* command's error.
MessageTaskExecuteReturnErr(c, res) ==
  /\ mt[c].st = "executing"
  /\ readers' = readers - 1
  /\ mt' = [mt EXCEPT ![c] =
              [st |-> "done", msg |-> mt[c].msg, route |-> mt[c].route, execs |-> mt[c].execs,
               ctx |-> mt[c].ctx, result |-> IF res = "failed" THEN "Err" ELSE "Ok",
               outcome |-> res, log |-> IF res = "failed" THEN "error" ELSE "debug"]]
  /\ UNCHANGED <<phase, dispatcherVars, registryVars, rt, lookup, gate, listing, boot, writer>>

\* command.execute returns in the task of call c: Ok(()) is logged with
\* debug!, Err(e) with error! and the command's name; the context and the
\* read guard are dropped and handle_message returns Ok(()).
MessageTaskExecuteReturn(c, res) ==
  /\ mt[c].st = "executing"
  /\ readers' = readers - 1
  /\ mt' = [mt EXCEPT ![c] =
              [st |-> "done", msg |-> mt[c].msg, route |-> mt[c].route, execs |-> mt[c].execs,
               ctx |-> mt[c].ctx, result |-> "Ok",
               outcome |-> res, log |-> IF res = "failed" THEN "error" ELSE "debug"]]
  /\ UNCHANGED <<phase, dispatcherVars, registryVars, rt, lookup, gate, listing, boot, writer>>

\* on_message returns (`if let Err(e) = .. handle_message(..)` finds Ok):
\* the task of MessageHandler is finished.
MessageTaskComplete(c) ==
  /\ mt[c].st = "done"
  /\ \E k \in DOMAIN tasks[c] :
       /\ HandlerOf(c, k) = "MessageHandler"
       /\ tasks[c][k] = "running"
       /\ tasks' = [tasks EXCEPT ![c][k] = IF mt[c].result = "Ok" THEN "done" ELSE "panicked"]
  /\ mt' = [mt EXCEPT ![c] = NoMessage]
  /\ UNCHANGED <<phase, handlers, calls, invoked, joined, registryVars, routerVars, lookup, gate, listing, boot, writer>>

BotNext ==
  \/ \E p \in Prefixes : with_prefix(p)
  \/ \E c \in CommandPool : register_command(c)
  \/ BotStart
  \/ \E c \in Calls : dispatch_ready(c)
  \/ \E c \in Calls : dispatch_message(c)
  \/ \E c \in Calls : Spawn(c)
  \/ \E c \in Calls : ReadyTaskRun(c)
  \/ \E c \in Calls : ReadyTaskComplete(c)
  \/ \E c \in Calls : MessageTaskRun(c)
  \/ \E c \in Calls : MessageTaskExecute(c)
  \/ \E c \in Calls, res \in {"succeeded", "failed"} : MessageTaskExecuteReturn(c, res)
  \/ \E c \in Calls : MessageTaskComplete(c)
  \/ \E c \in Calls : Join(c)
  \/ \E c \in Calls : Return(c)
  \/ \E c \in Calls : Finish(c)

\* The bot as main builds it: commands are registered, Bot::start registers
\* the two handlers, and the gateway's events are dispatched, each in a call
\* of its own, concurrently.
BotSpec == Init /\ [][BotNext]_vars

\* -------------------------------------------------- claims on the running bot

\* C12: when execute returns a failure, the router logs it as an error and
\* handle_message still returns Ok; the task of MessageHandler then finishes
\* as completed (nothing reaches the dispatcher's join as a failure), and
\* the step changes nothing of any other dispatch call or message.
C12_FailureIsContained ==
  /\ [](\A c \in Calls :
          mt[c].st = "done" =>
            /\ mt[c].result = "Ok"
            /\ mt[c].outcome = "failed" => mt[c].log = "error"
            /\ \E k \in DOMAIN tasks[c] :
                 HandlerOf(c, k) = "MessageHandler" /\ tasks[c][k] = "running")
  /\ [][\A c \in Calls :
          /\ (mt[c].st = "executing" /\ mt'[c].st = "done" /\ mt'[c].outcome = "failed")
             => /\ \A d \in Calls \ {c} :
                     mt'[d] = mt[d] /\ tasks'[d] = tasks[d] /\ calls'[d] = calls[d]
                /\ UNCHANGED <<handlers, tasks, calls, joined, registryVars, boot, writer>>
          /\ (mt[c].st = "done" /\ mt'[c].st = "idle")
             => \A k \in DOMAIN tasks[c] : tasks'[c][k] \in {"done", "none"}]_vars

\* C12's case: one call's execution has failed while another call's command
\* is executing.
C12_Witness ==
  \E c, d \in Calls :
    /\ c # d
    /\ mt[c].st = "done"
    /\ mt[c].outcome = "failed"
    /\ mt[d].st = "executing"

\* C19: the context of an execution is bound to the call's own message: its
\* message is the triggering message and its arguments are the words of
\* that message behind the command token, whatever other calls handle.
C19_ContextBoundToOneMessage ==
  \A c \in Calls :
    (mt[c].st \in {"executing", "done"} /\ mt[c].execs > 0)
    => /\ mt[c].ctx.msg = mt[c].msg
       /\ mt[c].ctx.args = Tail(RouterWords(mt[c].msg.content))

\* C19's case: two calls execute at once, for messages with different
\* arguments.
C19_Witness ==
  \E c, d \in Calls :
    /\ mt[c].st = "executing"
    /\ mt[d].st = "executing"
    /\ mt[c].ctx.args # mt[d].ctx.args
    /\ mt[c].ctx.args # <<>>

\* C20: once the bot is started, no step of a dispatch call or of a
\* handle_message call changes the handler lists, the command map, the alias
\* map or the prefix; and when no call is in flight nothing of any event is
\* left (no task, no record, no read guard).
C20_RegistriesReadOnly ==
  /\ [][phase = "running" => UNCHANGED <<handlers, commands, aliases, prefix>>]_vars
  /\ []((\A c \in Calls : calls[c].st = "idle")
        => /\ \A c \in Calls :
                tasks[c] = <<>> /\ invoked[c] = <<>> /\ joined[c] = <<>> /\ mt[c] = NoMessage
           /\ readers = 0)

\* C20's case: a message dispatch has returned after its command was run,
\* while another call's command is executing.
C20_Witness ==
  \E c, d \in Calls :
    /\ calls[c].st = "returned"
    /\ calls[c].et = "message"
    /\ joined[c] = <<"completed">>
    /\ mt[d].st = "executing"
    /\ commands # <<>>

\* C21: a message that is the prefix alone, or the prefix followed by
\* whitespace only, is discarded: nothing is executed and handle_message
\* returns Ok.
C21_EmptyTokenDiscarded ==
  (/\ rt.st # "idle"
   /\ IsPrefixOf(prefix, rt.msg.content)
   /\ \A i \in (Len(prefix) + 1)..Len(rt.msg.content) : rt.msg.content[i] \in Whitespace)
  => (rt.st = "done" /\ rt.execs = 0 /\ rt.outcome = "discarded" /\ rt.result = "Ok")

\* C21's case: with a command registered, a user's message is the prefix
\* followed by whitespace.
C21_Witness ==
  /\ rt.st = "done"
  /\ ~rt.msg.author.bot
  /\ commands # <<>>
  /\ IsPrefixOf(prefix, rt.msg.content)
  /\ Len(rt.msg.content) > Len(prefix)
  /\ \A i \in (Len(prefix) + 1)..Len(rt.msg.content) : rt.msg.content[i] \in Whitespace

\* ------------------------------------------------------------------- startup

\* str::trim: whitespace is removed from both ends.
RECURSIVE trim(_)
trim(s) ==
  IF s = <<>> THEN s
  ELSE IF Head(s) \in Whitespace THEN trim(Tail(s))
  ELSE IF s[Len(s)] \in Whitespace THEN trim(SubSeq(s, 1, Len(s) - 1))
  ELSE s

\* Option::unwrap_or on an Option given as a set.
OrElse(opt, d) == IF opt = {} THEN d ELSE CHOOSE x \in opt : TRUE

\* default_prefix, default_true, default_cooldown
default_prefix == <<"!">>
default_true == TRUE
default_cooldown == 3

\* impl Default for CommandsConfig
CommandsConfigDefault == [case_insensitive |-> TRUE, cooldown |-> default_cooldown]

\* impl Default for BotConfig
BotConfigDefault ==
  [commands |-> CommandsConfigDefault,
   prefix |-> default_prefix,
   owners |-> <<>>,
   respond_to_mentions |-> TRUE]

\* What a TOML document says: each key is there (with a value) or is not.
TomlCommands ==
  [case_insensitive : {{}, {FALSE}}, cooldown : {{}, {5}}]
TomlDocs ==
  [commands : {{}} \cup {{t} : t \in TomlCommands},
   prefix : {{}, {<<"a", "!">>}},
   owners : {{}, {<<42>>}},
   respond_to_mentions : {{}, {FALSE}}]
EmptyDoc == [commands |-> {}, prefix |-> {}, owners |-> {}, respond_to_mentions |-> {}]

\* config/config.toml: missing, unreadable, not valid TOML (or TOML that
\* does not deserialize into BotConfig), or a document.
ConfigFiles ==
  {[kind |-> "missing", doc |-> EmptyDoc], [kind |-> "unreadable", doc |-> EmptyDoc],
   [kind |-> "invalid", doc |-> EmptyDoc]}
  \cup [kind : {"toml"}, doc : TomlDocs]

\* A variant of from_toml in which a missing key gets the type's zero value.
from_toml_zeroed(doc) ==
  [commands |->
     IF doc.commands = {} THEN [case_insensitive |-> FALSE, cooldown |-> 0]
     ELSE LET t == CHOOSE t \in doc.commands : TRUE IN
       [case_insensitive |-> OrElse(t.case_insensitive, FALSE),
        cooldown |-> OrElse(t.cooldown, 0)],
   prefix |-> OrElse(doc.prefix, <<>>),
   owners |-> OrElse(doc.owners, <<>>),
   respond_to_mentions |-> OrElse(doc.respond_to_mentions, FALSE)]

\* toml::from_str into BotConfig, by the serde attributes of the fields:
\* `default` takes Default::default() of the field's type, `default = "f"`
\* calls f.
from_toml(doc) ==
  [commands |->
     IF doc.commands = {} THEN CommandsConfigDefault
     ELSE LET t == CHOOSE t \in doc.commands : TRUE IN
       [case_insensitive |-> OrElse(t.case_insensitive, default_true),
        cooldown |-> OrElse(t.cooldown, default_cooldown)],
   prefix |-> OrElse(doc.prefix, default_prefix),
   owners |-> OrElse(doc.owners, <<>>),
   respond_to_mentions |-> OrElse(doc.respond_to_mentions, default_true)]

\* BotConfig::load: read_to_string(path)?, then toml::from_str with its
\* error mapped to InvalidData.
BotConfig_load(file) ==
  IF file.kind = "missing" THEN [ok |-> FALSE, err |-> "NotFound", config |-> BotConfigDefault]
  ELSE IF file.kind = "unreadable" THEN [ok |-> FALSE, err |-> "PermissionDenied", config |-> BotConfigDefault]
  ELSE IF file.kind = "invalid" THEN [ok |-> FALSE, err |-> "InvalidData", config |-> BotConfigDefault]
  ELSE [ok |-> TRUE, err |-> None, config |-> from_toml(file.doc)]

\* A variant of load_config that hands the error of BotConfig::load on.
load_config_strict(file) ==
  LET r == BotConfig_load(file) IN [ok |-> r.ok, config |-> r.config]

\* load_config: Ok(config) when the file loads, and Ok(BotConfig::default())
\* (after two error! lines) when it does not.
load_config(file) ==
  LET r == BotConfig_load(file) IN
    IF r.ok THEN [ok |-> TRUE, config |-> r.config]
    ELSE [ok |-> TRUE, config |-> BotConfigDefault]

\* env::var("DISCORD_TOKEN"): Ok(value), Err(NotPresent), or Err(NotUnicode)
\* for a value that is set but is not valid Unicode.
EnvValues ==
  {[kind |-> "unset", val |-> <<>>],
   [kind |-> "set", val |-> <<"e">>],
   [kind |-> "not_unicode", val |-> <<"?">>]}

\* The file .token: unreadable, or its content.
TokenFiles ==
  {[readable |-> FALSE, content |-> <<>>],
   [readable |-> TRUE, content |-> <<"f">>],
   [readable |-> TRUE, content |-> <<" ", "f", " ">>]}

\* A variant of load_token that answers an empty token when it finds none.
load_token_or_empty(env, file) ==
  IF env.kind = "set" THEN [ok |-> TRUE, token |-> env.val]
  ELSE IF file.readable THEN [ok |-> TRUE, token |-> trim(file.content)]
  ELSE [ok |-> TRUE, token |-> <<>>]

\* load_token: `match env::var(..)`: Ok(token) is the token; on any Err the
\* file is read and trimmed; Err when the file cannot be read either.
load_token(env, file) ==
  IF env.kind = "set" THEN [ok |-> TRUE, token |-> env.val]
  ELSE IF file.readable THEN [ok |-> TRUE, token |-> trim(file.content)]
  ELSE [ok |-> FALSE, token |-> <<>>]

\* main, `let token = match load_token()`: on Err main logs and returns.
MainLoadToken ==
  /\ boot.pc = "main"
  /\ LET r == load_token(boot.env, boot.token_file) IN
       boot' = [boot EXCEPT !.pc = IF r.ok THEN "token_loaded" ELSE "exit",
                            !.token = r.token]
  /\ UNCHANGED <<phase, dispatcherVars, registryVars, routerVars, lookup, gate, mt, listing, writer>>

\* main, `let config = match load_config()`: on Err main logs and returns.
MainLoadConfig ==
  /\ boot.pc = "token_loaded"
  /\ LET r == load_config(boot.config_file) IN
       boot' = [boot EXCEPT !.pc = IF r.ok THEN "config_loaded" ELSE "exit",
                            !.config = r.config]
  /\ UNCHANGED <<phase, dispatcherVars, registryVars, routerVars, lookup, gate, mt, listing, writer>>

\* main, `Bot::new(token, config).register_command(PingCommand)`: Bot::new
\* builds CommandHandler::new().with_prefix(config.prefix), and the ping
\* command is registered with it.
MainBuildBot ==
  /\ boot.pc = "config_loaded"
  /\ boot' = [boot EXCEPT !.pc = "built"]
  /\ prefix' = boot.config.prefix
  /\ commands' = Insert(commands, CommandKey("PingCommand"), "PingCommand")
  /\ aliases' = InsertAliases(aliases, command_aliases("PingCommand"),
                              to_lowercase(name("PingCommand")))
  /\ regs' = regs + 1
  /\ UNCHANGED <<phase, dispatcherVars, routerVars, lookup, gate, mt, listing, writer>>

\* main, `bot.start().await`
MainStart == boot.pc = "built" /\ BotStart

StartupInit ==
  /\ InitBase
  /\ gate = NoGate
  /\ listing = NoListing
  /\ boot \in [pc : {"main"}, env : EnvValues, token_file : TokenFiles,
               config_file : ConfigFiles, token : {<<>>}, config : {BotConfigDefault}]

StartupNext ==
  \/ MainLoadToken
  \/ MainLoadConfig
  \/ MainBuildBot
  \/ MainStart
  \/ \E c \in Calls : dispatch_ready(c)
  \/ \E c \in Calls : Spawn(c)
  \/ \E c \in Calls : ReadyTaskRun(c)
  \/ \E c \in Calls : ReadyTaskComplete(c)
  \/ \E c \in Calls : Join(c)
  \/ \E c \in Calls : Return(c)
  \/ \E c \in Calls : Finish(c)

\* main: the token and the configuration are loaded from what the
\* environment holds, the bot is built and started, and ready events are
\* dispatched.
StartupSpec == StartupInit /\ [][StartupNext]_vars

\* ------------------------------------------------------------ claims on startup

\* C22: the default configuration has prefix "!", cooldown 3, case-insensitive
\* matching and mention-response on; a loaded configuration has these values
\* for every field its file leaves out; and before Bot::new sets a prefix the
\* command handler's prefix is "!".
C22_DefaultsApply ==
  /\ BotConfigDefault.prefix = <<"!">>
  /\ BotConfigDefault.commands.cooldown = 3
  /\ BotConfigDefault.commands.case_insensitive = TRUE
  /\ BotConfigDefault.respond_to_mentions = TRUE
  /\ boot.pc \in {"config_loaded", "built"} =>
       LET doc == boot.config_file.doc
           cfg == boot.config
           NoKey(key) == doc.commands = {} \/ \A t \in doc.commands : t[key] = {}
       IN /\ doc.prefix = {} => cfg.prefix = <<"!">>
          /\ doc.respond_to_mentions = {} => cfg.respond_to_mentions = TRUE
          /\ NoKey("cooldown") => cfg.commands.cooldown = 3
          /\ NoKey("case_insensitive") => cfg.commands.case_insensitive = TRUE
  /\ boot.pc \in {"main", "token_loaded", "config_loaded", "exit"} => prefix = <<"!">>

\* C22's case: a configuration was loaded from a document that has a
\* commands table and an owner list but no prefix, no cooldown and no
\* mention-response key.
C22_Witness ==
  /\ boot.pc = "built"
  /\ boot.config_file.kind = "toml"
  /\ boot.config_file.doc.prefix = {}
  /\ boot.config_file.doc.respond_to_mentions = {}
  /\ boot.config_file.doc.owners # {}
  /\ \E t \in boot.config_file.doc.commands : t.cooldown = {} /\ t.case_insensitive # {}

\* The token main goes on with is the one of the token file, trimmed.
TokenFromFile ==
  /\ boot.pc # "exit"
  /\ boot.token = trim(boot.token_file.content)

\* The state of a process that has built and started nothing.
NothingStarted ==
  /\ phase = "boot"
  /\ handlers = <<>>
  /\ commands = <<>>
  /\ \A c \in Calls : calls[c].st = "idle" /\ tasks[c] = <<>>

\* C23 as stated: the token is the environment variable's whenever the
\* variable is set, and otherwise the token file's; with neither, main
\* exits with no bot built or started and no event dispatched.
C23_TokenSourceAsStated ==
  boot.pc # "main" =>
    /\ boot.env.kind # "unset" => (boot.pc # "exit" /\ boot.token = boot.env.val)
    /\ (boot.env.kind = "unset" /\ boot.token_file.readable) => TokenFromFile
    /\ (boot.env.kind = "unset" /\ ~boot.token_file.readable) => boot.pc = "exit"
    /\ boot.pc = "exit" => NothingStarted

\* C23, amended: the token is the environment variable's when the variable
\* is set to valid Unicode; when it is unset or set to a value that is not
\* valid Unicode, the token is the trimmed content of the token file; when
\* that file cannot be read either, main exits with no bot built or started
\* and no event dispatched.
C23_TokenSourceAndFatal ==
  boot.pc # "main" =>
    /\ boot.env.kind = "set" => (boot.pc # "exit" /\ boot.token = boot.env.val)
    /\ (boot.env.kind # "set" /\ boot.token_file.readable) => TokenFromFile
    /\ (boot.env.kind # "set" /\ ~boot.token_file.readable) => boot.pc = "exit"
    /\ boot.pc = "exit" => NothingStarted

\* C23's case: no token in the environment and none in the file; main has
\* exited.
C23_Witness ==
  /\ boot.pc = "exit"
  /\ boot.env.kind # "set"
  /\ ~boot.token_file.readable

\* ----------------------------------------------- more claims on the router

\* parse_args: None when the content does not start with the prefix or has
\* no word behind it; otherwise the first word, as written, and the rest.
parse_args(content, p) ==
  IF ~starts_with(content, p) THEN {}
  ELSE LET parts == split_whitespace(trim(trim_start_matches(content, p))) IN
    IF parts = <<>> THEN {}
    ELSE {[command |-> Head(parts), args |-> Tail(parts)]}

\* C24: the prefix is stripped once: the token handle_message resolves is
\* the lower-cased first word of the text behind one occurrence of the
\* prefix, and the token of parse_args is that first word.
C24_PrefixStrippedOnce ==
  LET w == WordsOf(AfterPrefix(rt.msg.content)) IN
    /\ (rt.st \in {"locking", "executing"} \/ (rt.st = "done" /\ rt.execs > 0))
       => (w # <<>> /\ rt.route.cmd_name = to_lowercase(w[1]))
    /\ (rt.st # "idle" /\ IsPrefixOf(prefix, rt.msg.content))
       => \A r \in parse_args(rt.msg.content, prefix) : w # <<>> /\ r.command = w[1]

\* ------------------------------------------- more claims on the dispatcher

\* The number of entries of a handler map, over all its lists.
EntryCount(hs) ==
  Cardinality({p \in (DOMAIN hs) \X (1..Cardinality(HandlerPool)) : p[2] <= Len(hs[p[1]])})

\* C25: every handler is in the list of the event type it declares and in
\* no other, a dispatch of a type runs callbacks of handlers of that type
\* only, and a registration adds one entry to one list.
C25_HandlersByDeclaredType ==
  /\ [](/\ \A et \in DOMAIN handlers : \A k \in 1..Len(handlers[et]) :
             event_type(handlers[et][k]) = et
        /\ \A c \in Calls : \A k \in DOMAIN invoked[c] :
             invoked[c][k] > 0 => event_type(HandlerOf(c, k)) = calls[c].et)
  /\ [][handlers' # handlers =>
          /\ EntryCount(handlers') = EntryCount(handlers) + 1
          /\ Cardinality({et \in DOMAIN handlers' :
                            et \notin DOMAIN handlers \/ handlers'[et] # handlers[et]}) = 1]_vars

\* C25's case: handlers of two types are registered and a dispatch of one
\* type has run a callback.
C25_Witness ==
  /\ Cardinality(DOMAIN handlers) >= 2
  /\ \E c \in Calls : \E k \in DOMAIN invoked[c] : invoked[c][k] > 0

\* C27: a dispatch call has returned only when every task it started has
\* terminated, by completing or by panicking; none is still running.
C27_ReturnsAfterAllTerminated ==
  \A c \in Calls :
    calls[c].st = "returned" =>
      \A k \in DOMAIN tasks[c] : tasks[c][k] \in {"done", "panicked"}

\* C27's case: a dispatch over two handlers has returned.
C27_Witness ==
  \E c \in Calls :
    /\ calls[c].st = "returned"
    /\ Len(tasks[c]) >= 2
    /\ tasks[c][1] = "done"
    /\ tasks[c][2] = "done"

\* ---------------------------------------- more claims on the permission gate

\* The member lookup of validate_command ended early: the message is from a
\* guild and the fetch failed, or the fetched member has no permission set.
MemberLookupFailed ==
  /\ gate.fn = "validate_command"
  /\ gate.input.guild
  /\ \/ ~gate.input.fetched.ok
     \/ \E m \in gate.input.fetched.member : m.permissions = {}

C28_RouterAgreesWithLookup ==
  /\ (rt.st \in {"locking", "executing"} \/ (rt.st = "done" /\ rt.execs > 0))
     => rt.route.command = GetCommand(rt.route.cmd_name)
  /\ (/\ rt.st = "done"
      /\ rt.execs = 0
      /\ ~rt.msg.author.bot
      /\ IsPrefixOf(prefix, rt.msg.content)
      /\ RouterWords(rt.msg.content) # <<>>)
     => GetCommand(RouterWords(rt.msg.content)[1]) = None

\* ------------------------------------------------ more claims on the registry

\* The lower-cased aliases command c declares.
AliasKeys(c) == {to_lowercase(command_aliases(c)[i]) : i \in 1..Len(command_aliases(c))}

\* The commands registered so far, in order.
RegisteredSoFar == SubSeq(listing.order, 1, regs)

\* The latest registration whose command has the lower-cased name k, and the
\* latest one whose command declares the alias a.
LastNamed(k) ==
  RegisteredSoFar[CHOOSE i \in 1..regs :
    /\ to_lowercase(name(RegisteredSoFar[i])) = k
    /\ \A j \in (i + 1)..regs : to_lowercase(name(RegisteredSoFar[j])) # k]
LastDeclaring(a) ==
  RegisteredSoFar[CHOOSE i \in 1..regs :
    /\ a \in AliasKeys(RegisteredSoFar[i])
    /\ \A j \in (i + 1)..regs : a \notin AliasKeys(RegisteredSoFar[j])]

WriteRequest ==
  /\ phase = "running"
  /\ writer.st = "none"
  /\ writer.version = 0
  /\ writer' = [writer EXCEPT !.st = "waiting"]
  /\ UNCHANGED <<phase, dispatcherVars, registryVars, routerVars, lookup, gate, mt, listing, boot>>

\* A variant of WriteAcquire that grants the write guard next to read guards.
WriteAcquireEager ==
  /\ writer.st = "waiting"
  /\ writer' = [writer EXCEPT !.st = "held"]
  /\ UNCHANGED <<phase, dispatcherVars, registryVars, routerVars, lookup, gate, mt, listing, boot>>

\* `.await` on the write guard completes: no read guard is out.
WriteAcquire ==
  /\ writer.st = "waiting"
  /\ readers = 0
  /\ writer' = [writer EXCEPT !.st = "held"]
  /\ UNCHANGED <<phase, dispatcherVars, registryVars, routerVars, lookup, gate, mt, listing, boot>>

\* data.insert::<BotConfigKey>(..) changes the map and the block ends, which
\* drops the write guard.
WriteRelease ==
  /\ writer.st = "held"
  /\ writer' = [st |-> "none", version |-> writer.version + 1]
  /\ UNCHANGED <<phase, dispatcherVars, registryVars, routerVars, lookup, gate, mt, listing, boot>>

\* `ctx.data.read().await` in handle_message completes: the write guard is
\* not out and no writer is queued ahead of this reader.
MessageTaskRead(c) ==
  /\ writer.st = "none"
  /\ MessageTaskExecute(c)

LockNext ==
  \/ \E c \in CommandPool : register_command(c)
  \/ BotStart
  \/ \E c \in Calls : dispatch_message(c)
  \/ \E c \in Calls : Spawn(c)
  \/ \E c \in Calls : MessageTaskRun(c)
  \/ \E c \in Calls : MessageTaskRead(c)
  \/ \E c \in Calls, res \in {"succeeded", "failed"} : MessageTaskExecuteReturn(c, res)
  \/ \E c \in Calls : MessageTaskComplete(c)
  \/ \E c \in Calls : Join(c)
  \/ \E c \in Calls : Return(c)
  \/ \E c \in Calls : Finish(c)
  \/ WriteRequest
  \/ WriteAcquire
  \/ WriteRelease

\* The running bot's message traffic next to a task that writes the data map.
LockSpec == Init /\ [][LockNext]_vars

\* The dispatch calls whose command is executing.
Executing == {c \in Calls : mt[c].st = "executing"}

\* C30: a command executes under a read guard of the data map that its
\* router took before the context was built and holds until execute has
\* returned; while any command executes the write guard is not out and is
\* not granted, and the data map does not change.
C30_ReadLockHeldDuringExecute ==
  /\ [](/\ readers = Cardinality(Executing)
        /\ Executing # {} => writer.st # "held")
  /\ [][Executing # {} =>
          /\ writer'.st # "held"
          /\ writer'.version = writer.version]_vars

\* C30's case: a writer waits for the guard while a command is executing.
C30_Witness == writer.st = "waiting" /\ Executing # {}

\* ------------------------------------------------ claims on the two parsers

\* C31: parse_args and handle_message agree on every content: parse_args
\* returns a pair exactly when handle_message finds a command token, and the
\* pair is the token handle_message resolves (lower-cased) and the arguments
\* it passes to execute, in the same order.
C31_ParsersAgree ==
  (rt.st # "idle" /\ ~rt.msg.author.bot) =>
    LET parsed == parse_args(rt.msg.content, prefix)
        found == PrefixMatches(rt.msg.content) /\ ContentWords(rt.msg.content) # <<>>
    IN /\ (parsed # {}) <=> found
       /\ \A r \in parsed :
            /\ r.command = to_lowercase(Head(ContentWords(rt.msg.content)))
            /\ r.args = Tail(ContentWords(rt.msg.content))
            /\ (rt.st \in {"locking", "executing"} \/ (rt.st = "done" /\ rt.execs > 0))
               => /\ r.command = rt.route.cmd_name
                  /\ r.args = rt.route.arguments

\* ------------------------------------------------- more claims on startup

\* The configuration file could not be loaded.
ConfigBroken == boot.config_file.kind # "toml"

\* C32: load_config returns Ok for every configuration file, and the default
\* configuration for one that is missing, unreadable or not valid TOML; main
\* always goes from the loaded token on to building the bot, and with a
\* broken file the bot has the prefix "!" and no owners.
C32_LoadConfigNeverFails ==
  /\ [](/\ \A f \in ConfigFiles :
             /\ load_config(f).ok
             /\ f.kind # "toml" => load_config(f).config = BotConfigDefault
        /\ boot.pc = "exit" => ~load_token(boot.env, boot.token_file).ok
        /\ (boot.pc \in {"config_loaded", "built"} /\ ConfigBroken)
           => /\ boot.config = BotConfigDefault
              /\ boot.config.prefix = <<"!">>
              /\ boot.config.owners = <<>>
        /\ (boot.pc = "built" /\ ConfigBroken) => prefix = <<"!">>)
  /\ [][boot.pc = "token_loaded" => boot'.pc \in {"token_loaded", "config_loaded"}]_vars

\* C32's case: the configuration file was not valid TOML and the bot was
\* built and started.
C32_Witness ==
  /\ boot.config_file.kind = "invalid"
  /\ boot.pc = "built"
  /\ phase = "running"

====
